---- MODULE Spec2Model ----
(***************************************************************************)
(* A model of debt_bot.py: the DebtBot aggregator over the Google Sheets   *)
(* store (employees, debts), the period rule of calculate_monthly_debt,    *)
(* the button handlers that present the aggregates, and the scheduler      *)
(* thread.                                                                 *)
(*                                                                         *)
(* A sheet is a sequence of rows, a row a sequence of cell texts (the       *)
(* values API returns every cell as a string).  Python's 0-based row[i] is  *)
(* row[i+1] here.                                                           *)
(***************************************************************************)
EXTENDS Integers, Sequences, FiniteSets, TLC

\* ------------------------------------------------------------------ bounds

\* Data rows an editor of the spreadsheet may add below the header.
MaxRows == 2
\* Rows of the employees sheet below its header.
MaxEmployees == 2
\* The last year the clock runs through (it starts on 1 January 2023).
LastYear == 2025
\* Days the hourly clock of the scheduler runs through, from 9 December 2024.
ClockDays == 3

\* config.NOTIFICATION_HOUR: the hour of the day the job is scheduled at.  The
\* config module sets it; any hour 0..23 gives the same behaviour.
NOTIFICATION_HOUR == 9

\* ---------------------------------------------------------- value domains

\* Python's None, as passed for an omitted month / employee_name argument.
None == "<None>"

\* Python truthiness of an optional string argument (`if not month`,
\* `if employee_name and ...`).
Falsy(v) == v = None \/ v = ""

SHEET_NAMES == [employees |-> "employees", debts |-> "debts", admins |-> "admins"]

MonthName ==
    <<"January", "February", "March", "April", "May", "June", "July",
      "August", "September", "October", "November", "December">>

\* Cell texts the editors of the spreadsheet write.
DateTexts == {"09.12.2024", "10.12.2024"}
NameTexts == {"Ivanov", "Petrov"}
ItemTexts == {"tea"}
AmountTexts == {"10", "5", "-5", "abc"}
LabelTexts == {"November 2024", "December 2024"}

DebtsHeader == <<"date", "employee", "items", "amount", "month">>
EmployeesHeader == <<"id", "name">>

\* Rows the editors add to the debts sheet.  The values API drops trailing
\* empty cells, so a row may be shorter than five cells.  A row's period
\* label goes with its date; no operation reads both.
DebtRows ==
    {<<"09.12.2024", n, i, a, "November 2024">> :
        n \in NameTexts, i \in ItemTexts, a \in AmountTexts}
    \cup {<<"10.12.2024", n, i, a, "December 2024">> :
        n \in NameTexts, i \in ItemTexts, a \in AmountTexts}
    \cup {<<"10.12.2024", n, "tea", "10">> : n \in NameTexts}
    \cup {<<"10.12.2024">>}

\* Rows the editors add to the employees sheet (the last one has no name).
EmployeeRows == {<<"1", "Ivanov">>, <<"2", "Petrov">>, <<"3">>}

\* Arguments the callers pass.
NameArgs == {"Ivanov", "Sidorov"}
MonthArgs == {None, "December 2024"}
DateArgs == {"10.12.2024"}
DailyNameArgs == {"Ivanov", None, ""}

\* Telegram user ids as str(user_id) gives them, and the callback data of
\* the buttons the menus and prompts show.
UserIds == {"1", "2", "9"}
ButtonData ==
    {"help", "all_debts", "employee_debt", "daily_items", "send_notifications",
     "back", "my_debt_total", "my_debt_daily", "my_debt_details"}

\* Rows the editors add to the admins sheet.
AdminRows == {<<"9">>}
AdminsHeader == <<"id">>

\* The names bound at module level in debt_bot.py: its imports, constants
\* and definitions.  A function body reads these, its parameters and its
\* locals; any other name raises NameError.
ModuleGlobals ==
    {"logging", "asyncio", "datetime", "timedelta", "Update",
     "InlineKeyboardButton", "InlineKeyboardMarkup", "Application",
     "CommandHandler", "CallbackQueryHandler", "ConversationHandler",
     "MessageHandler", "filters", "ParseMode", "build", "service_account",
     "schedule", "time", "Thread", "TELEGRAM_TOKEN", "GOOGLE_API_KEY",
     "SPREADSHEET_ID", "ADMIN_IDS", "ENABLE_NOTIFICATIONS", "ENABLE_LOGGING",
     "NOTIFICATION_HOUR", "GOOGLE_SCOPES", "logger", "SELECTING_ACTION",
     "TYPING_DATE", "TYPING_EMPLOYEE", "SHEET_NAMES", "DebtBot", "bot",
     "start", "button_handler", "admin_button_handler",
     "employee_button_handler", "show_all_debts", "send_notifications",
     "show_help", "handle_text", "start_from_query", "start_from_message",
     "error_handler", "send_scheduled_notifications", "scheduler_thread",
     "main"}

\* float(text): the number a cell text parses to.  A text outside the
\* domain makes float() raise ValueError.
FloatValue ==
    ("10" :> 10) @@ ("5" :> 5) @@ ("-5" :> -5) @@ ("0" :> 0) @@ ("20" :> 20)

FloatRaisesValueError(text) == text \notin DOMAIN FloatValue

\* ------------------------------------------------------------------- state

VARIABLES
    service,     \* DebtBot.service: TRUE when build() returned a client, FALSE for None
    storeUp,     \* whether a values().get(...).execute() request currently succeeds
    sheets,      \* the spreadsheet: sheet name -> sequence of rows
    now,         \* datetime.now(): [year, month, day, hour]
    call,        \* the aggregator call that finished last: [op, ...arguments]
    month_used,  \* the local `month` of the last calculate_monthly_debt
    result,      \* what the call returned
    pressed,     \* the button press handled last: [user_id, data]
    reply,       \* the message the handler left in the chat
    raised,      \* the exception that left the handler, or None
    user_data,   \* context.user_data: [action, employee_name]
    ENABLE_NOTIFICATIONS,  \* config.ENABLE_NOTIFICATIONS
    sched_pc,    \* the scheduler thread: "not_started", "started", "loop" or "off"
    next_run,    \* the next_run of the job registered with schedule
    polled,      \* run_pending ran in the current hour
    job_runs,    \* the times at which send_scheduled_notifications ran
    log_lines,   \* the times at which it logged the notification hour
    timer_summaries,  \* calls of get_all_debts_summary made by the job
    run_pc,      \* an interactive get_all_debts_summary: "idle" or "loop"
    run_employees,    \* its local `employees`
    run_i,       \* the index of the employee its loop is at
    run_acc,     \* its locals `total` and `summary`
    run_month,   \* the current period when it started
    run_overlap  \* the job ran while it was in its loop

\* --------------------------------------------------------- store adapter

\* get_sheet_data without its except branch: a failed request still yields
\* the rows.
GetSheetData_NoExcept(sheet_name) ==
    IF ~service THEN <<>> ELSE sheets[sheet_name]

\* DebtBot.get_sheet_data: [] without a client or when the request raises.
GetSheetData(sheet_name) ==
    IF ~service THEN <<>>
    ELSE IF ~storeUp THEN <<>>
    ELSE sheets[sheet_name]

\* ----------------------------------------------------------- period rule

IsLeap(y) == (y % 4 = 0 /\ y % 100 # 0) \/ y % 400 = 0

DaysInMonth(y, m) ==
    IF m = 2 THEN (IF IsLeap(y) THEN 29 ELSE 28)
    ELSE IF m \in {4, 6, 9, 11} THEN 30 ELSE 31

\* d - timedelta(days=1)
MinusOneDay(d) ==
    IF d.day > 1 THEN [d EXCEPT !.day = d.day - 1]
    ELSE IF d.month > 1
         THEN [d EXCEPT !.month = d.month - 1,
                        !.day = DaysInMonth(d.year, d.month - 1)]
         ELSE [d EXCEPT !.year = d.year - 1, !.month = 12, !.day = 31]

\* The day after d, at the same hour.
PlusOneDay(d) ==
    IF d.day < DaysInMonth(d.year, d.month) THEN [d EXCEPT !.day = d.day + 1]
    ELSE IF d.month < 12 THEN [d EXCEPT !.month = d.month + 1, !.day = 1]
    ELSE [d EXCEPT !.year = d.year + 1, !.month = 1, !.day = 1]

\* d.strftime("%B %Y")
Strftime(d) == MonthName[d.month] \o " " \o ToString(d.year)

\* The block with `today.day > 10` as its test.
CurrentPeriod_After10th(d) ==
    IF d.day > 10 THEN Strftime(d)
    ELSE Strftime(MinusOneDay([d EXCEPT !.day = 1]))

\* The `if not month:` block of calculate_monthly_debt, for today = d.
CurrentPeriod(d) ==
    IF d.day >= 10 THEN Strftime(d)
    ELSE Strftime(MinusOneDay([d EXCEPT !.day = 1]))

\* ------------------------------------------------------------ aggregator

\* The row test without the comparison of the period column.
MonthlyRowMatches_AnyMonth(row, employee_name, month) ==
    /\ Len(row) >= 5
    /\ row[2] = employee_name

\* The row test of calculate_monthly_debt.
MonthlyRowMatches(row, employee_name, month) ==
    /\ Len(row) >= 5
    /\ row[2] = employee_name
    /\ row[5] = month

\* The iteration with `amount = 0` in place of `continue` in the except
\* branch.
MonthlyStep_ZeroOnValueError(acc, row, employee_name, month) ==
    IF ~MonthlyRowMatches(row, employee_name, month) THEN acc
    ELSE LET amount == IF FloatRaisesValueError(row[4]) THEN 0
                       ELSE FloatValue[row[4]]
         IN  [total |-> acc.total + amount,
              details |-> Append(acc.details,
                                 [date |-> row[1], items |-> row[3],
                                  amount |-> amount])]

\* One iteration of the loop of calculate_monthly_debt over `row`.
MonthlyStep(acc, row, employee_name, month) ==
    IF ~MonthlyRowMatches(row, employee_name, month) THEN acc
    ELSE IF FloatRaisesValueError(row[4]) THEN acc
    ELSE [total |-> acc.total + FloatValue[row[4]],
          details |-> Append(acc.details,
                             [date |-> row[1], items |-> row[3],
                              amount |-> FloatValue[row[4]]])]

RECURSIVE MonthlyScan(_, _, _, _, _)
MonthlyScan(debts_data, i, acc, employee_name, month) ==
    IF i > Len(debts_data) THEN acc
    ELSE MonthlyScan(debts_data, i + 1,
                     MonthlyStep(acc, debts_data[i], employee_name, month),
                     employee_name, month)

\* calculate_monthly_debt from the rows read, with `month` resolved.
MonthlyDebtOf(debts_data, employee_name, month) ==
    IF Len(debts_data) < 2 THEN [total |-> 0, details |-> <<>>]
    ELSE MonthlyScan(debts_data, 2, [total |-> 0, details |-> <<>>],
                     employee_name, month)

\* The period calculate_monthly_debt works with.
MonthOf(month) == IF Falsy(month) THEN CurrentPeriod(now) ELSE month

\* DebtBot.calculate_monthly_debt(employee_name, month)
CalculateMonthlyDebt(employee_name, month) ==
    MonthlyDebtOf(GetSheetData(SHEET_NAMES.debts), employee_name, MonthOf(month))

\* The row test without the employee filter.
DailyRowMatches_AnyEmployee(row, date, employee_name) ==
    /\ Len(row) >= 4
    /\ row[1] = date

\* The row test of get_daily_debts.
DailyRowMatches(row, date, employee_name) ==
    /\ Len(row) >= 4
    /\ row[1] = date
    /\ ~(~Falsy(employee_name) /\ row[2] # employee_name)

\* One iteration of the loop of get_daily_debts over `row`.
DailyStep(daily_debts, row, date, employee_name) ==
    IF ~DailyRowMatches(row, date, employee_name) THEN daily_debts
    ELSE IF FloatRaisesValueError(row[4]) THEN daily_debts
    ELSE Append(daily_debts,
                [employee |-> row[2], items |-> row[3],
                 amount |-> FloatValue[row[4]]])

RECURSIVE DailyScan(_, _, _, _, _)
DailyScan(debts_data, i, daily_debts, date, employee_name) ==
    IF i > Len(debts_data) THEN daily_debts
    ELSE DailyScan(debts_data, i + 1,
                   DailyStep(daily_debts, debts_data[i], date, employee_name),
                   date, employee_name)

\* get_daily_debts from the rows read.
DailyDebtsOf(debts_data, date, employee_name) ==
    IF Len(debts_data) < 2 THEN <<>>
    ELSE DailyScan(debts_data, 2, <<>>, date, employee_name)

\* DebtBot.get_daily_debts(date, employee_name)
GetDailyDebts(date, employee_name) ==
    DailyDebtsOf(GetSheetData(SHEET_NAMES.debts), date, employee_name)

RECURSIVE EmployeeNames(_, _)
EmployeeNames(employees_data, i) ==
    IF i > Len(employees_data) THEN <<>>
    ELSE IF Len(employees_data[i]) > 1
         THEN <<employees_data[i][2]>> \o EmployeeNames(employees_data, i + 1)
         ELSE EmployeeNames(employees_data, i + 1)

\* DebtBot.get_all_employees
GetAllEmployees ==
    LET employees_data == GetSheetData(SHEET_NAMES.employees)
    IN  IF Len(employees_data) < 2 THEN <<>>
        ELSE EmployeeNames(employees_data, 2)

\* Whether get_all_debts_summary lists an employee with this total.
SummaryIncludes(employee_total) == employee_total > 0

\* One iteration of the loop of get_all_debts_summary.  An entry stands for
\* the line f"{employee}: {employee_total} ₽".
SummaryStep(acc, employee, employee_total) ==
    IF SummaryIncludes(employee_total)
    THEN [total |-> acc.total + employee_total,
          summary |-> Append(acc.summary,
                             [employee |-> employee, total |-> employee_total])]
    ELSE acc

RECURSIVE SummaryScan(_, _, _, _)
SummaryScan(employees, i, acc, month) ==
    IF i > Len(employees) THEN acc
    ELSE SummaryScan(employees, i + 1,
                     SummaryStep(acc, employees[i],
                                 CalculateMonthlyDebt(employees[i], month).total),
                     month)

\* DebtBot.get_all_debts_summary(month)
GetAllDebtsSummary(month) ==
    SummaryScan(GetAllEmployees, 1, [total |-> 0, summary |-> <<>>], month)

\* --------------------------------------------------------------- handlers

NoPress == [user_id |-> None, data |-> None]
NoReply == [kind |-> "none"]

\* What a handler does: the message it leaves, the exception that leaves
\* it, and context.user_data after it.
Outcome(r, e, ud) == [reply |-> r, raised |-> e, user_data |-> ud]

RECURSIVE RoleScan(_, _, _)
RoleScan(data, i, user_id) ==
    IF i > Len(data) THEN FALSE
    ELSE IF Len(data[i]) > 0 /\ data[i][1] = user_id THEN TRUE
    ELSE RoleScan(data, i + 1, user_id)

\* DebtBot.get_user_role
GetUserRole(user_id) ==
    IF RoleScan(GetSheetData(SHEET_NAMES.admins), 2, user_id) THEN "admin"
    ELSE IF RoleScan(GetSheetData(SHEET_NAMES.employees), 2, user_id)
         THEN "employee"
         ELSE "unknown"

RECURSIVE EmployeeNameScan(_, _, _)
EmployeeNameScan(employees_data, i, user_id) ==
    IF i > Len(employees_data) THEN None
    ELSE IF Len(employees_data[i]) > 0 /\ employees_data[i][1] = user_id
         THEN (IF Len(employees_data[i]) > 1 THEN employees_data[i][2]
               ELSE "Neizvestnyj")
         ELSE EmployeeNameScan(employees_data, i + 1, user_id)

\* DebtBot.get_employee_name ("Neizvestnyj" transliterates the Russian
\* word for "unknown" that the code returns for a row without a name cell).
GetEmployeeName(user_id) ==
    EmployeeNameScan(GetSheetData(SHEET_NAMES.employees), 2, user_id)

\* details[-5:]
LastFive(details) ==
    IF Len(details) <= 5 THEN details
    ELSE SubSeq(details, Len(details) - 4, Len(details))

\* The loop of the 'my_debt_details' branch: each detail with the
\* running_total printed beside it.
RECURSIVE RunningTotal(_, _, _, _)
RunningTotal(details, i, running_total, lines) ==
    IF i > Len(details) THEN lines
    ELSE RunningTotal(details, i + 1, running_total + details[i].amount,
                      Append(lines,
                             [date |-> details[i].date,
                              items |-> details[i].items,
                              amount |-> details[i].amount,
                              running_total |-> running_total + details[i].amount]))

\* The body of employee_button_handler once `employee_name` is bound.
EmployeeBranches(data, employee_name) ==
    IF Falsy(employee_name)
    THEN Outcome([kind |-> "name_not_found"], None, user_data)
    ELSE IF data = "my_debt_total"
    THEN LET r == CalculateMonthlyDebt(employee_name, None)
         IN  Outcome([kind |-> "my_debt_total", month |-> Strftime(now),
                      total |-> r.total, details |-> LastFive(r.details)],
                     None, user_data)
    ELSE IF data = "my_debt_daily"
    THEN Outcome([kind |-> "ask_date"], None,
                 [action |-> "my_debt_daily", employee_name |-> employee_name])
    ELSE IF data = "my_debt_details"
    THEN LET r == CalculateMonthlyDebt(employee_name, None)
         IN  IF r.details = <<>>
             THEN Outcome([kind |-> "no_debts", month |-> Strftime(now)],
                          None, user_data)
             ELSE Outcome([kind |-> "my_debt_details", month |-> Strftime(now),
                           lines |-> RunningTotal(r.details, 1, 0, <<>>),
                           total |-> r.total],
                          None, user_data)
    ELSE Outcome(reply, None, user_data)

\* The first statement of employee_button_handler with the name `update`
\* bound to the update handled.
EmployeeButtonHandler_UpdateBound(user_id, data) ==
    EmployeeBranches(data, GetEmployeeName(user_id))

\* employee_button_handler(query, context).  Its first statement reads the
\* name `update`, which is neither a parameter nor a local of the function.
EmployeeButtonHandler(user_id, data) ==
    IF "update" \notin ModuleGlobals \cup {"query", "context"}
    THEN Outcome(reply, "NameError", user_data)
    ELSE EmployeeBranches(data, GetEmployeeName(user_id))

\* show_all_debts
ShowAllDebts ==
    LET r == GetAllDebtsSummary(None)
    IN  Outcome([kind |-> "all_debts", month |-> Strftime(now),
                 total |-> r.total, summary |-> r.summary],
                None, user_data)

RECURSIVE NotifyScan(_, _, _)
NotifyScan(employees_data, i, notified) ==
    IF i > Len(employees_data) THEN notified
    ELSE IF Len(employees_data[i]) >= 2
            /\ CalculateMonthlyDebt(employees_data[i][2], None).total > 0
         THEN NotifyScan(employees_data, i + 1, notified + 1)
         ELSE NotifyScan(employees_data, i + 1, notified)

\* send_notifications.  int(row[0]) succeeds on every id of UserIds, so
\* `errors` stays 0.
SendNotifications ==
    LET employees_data == GetSheetData(SHEET_NAMES.employees)
        notified == NotifyScan(employees_data, 2, 0)
    IN  Outcome([kind |-> "notifications_sent", notified |-> notified,
                 errors |-> 0,
                 skipped |-> Len(employees_data) - 1 - notified],
                None, user_data)

\* admin_button_handler(query, context).  'back' calls start_from_query,
\* which reads query.update: a CallbackQuery has no such attribute.
AdminButtonHandler(data) ==
    IF data = "all_debts" THEN ShowAllDebts
    ELSE IF data = "employee_debt"
    THEN Outcome([kind |-> "ask_employee"], None,
                 [user_data EXCEPT !.action = "employee_debt"])
    ELSE IF data = "daily_items"
    THEN Outcome([kind |-> "ask_date"], None,
                 [user_data EXCEPT !.action = "daily_items"])
    ELSE IF data = "send_notifications" THEN SendNotifications
    ELSE IF data = "back" THEN Outcome(reply, "AttributeError", user_data)
    ELSE Outcome(reply, None, user_data)

\* button_handler(update, context) for a press of `data` by `user_id`.
ButtonHandler(user_id, data) ==
    IF data = "help" THEN Outcome([kind |-> "help"], None, user_data)
    ELSE IF GetUserRole(user_id) = "admin" THEN AdminButtonHandler(data)
    ELSE EmployeeButtonHandler(user_id, data)

\* What button_handler returns to the ConversationHandler it is the entry
\* point of: the value of admin_button_handler / employee_button_handler is
\* awaited and dropped, and no path returns a value.
ButtonHandlerReturns(user_id, data) == None

\* The state of a user's conversation after a button press: a callback that
\* returns None leaves it as it was, and it starts as not begun (None).
ConversationState(user_id, data) ==
    IF ButtonHandlerReturns(user_id, data) = None THEN None
    ELSE ButtonHandlerReturns(user_id, data)

\* sum(debt['amount'] for debt in daily_debts)
RECURSIVE SumOfAmounts(_, _)
SumOfAmounts(daily_debts, i) ==
    IF i > Len(daily_debts) THEN 0
    ELSE daily_debts[i].amount + SumOfAmounts(daily_debts, i + 1)

\* handle_text(update, context) for a message `text`, with context.user_data
\* = ud.  start_from_message then shows the menu again.
HandleText(text, ud) ==
    IF ud.action = "employee_debt"
    THEN LET r == CalculateMonthlyDebt(text, None)
         IN  Outcome([kind |-> "employee_debt", employee |-> text,
                      month |-> Strftime(now), total |-> r.total,
                      details |-> LastFive(r.details)],
                     None, ud)
    ELSE IF ud.action = "daily_items"
    THEN LET daily_debts == GetDailyDebts(text, None)
         IN  IF daily_debts = <<>>
             THEN Outcome([kind |-> "no_daily_items", date |-> text], None, ud)
             ELSE Outcome([kind |-> "daily_items", date |-> text,
                           debts |-> daily_debts], None, ud)
    ELSE IF ud.action = "my_debt_daily"
    THEN LET daily_debts == GetDailyDebts(text, ud.employee_name)
         IN  IF daily_debts = <<>>
             THEN Outcome([kind |-> "no_my_debt_daily", date |-> text], None, ud)
             ELSE Outcome([kind |-> "my_debt_daily", date |-> text,
                           total |-> SumOfAmounts(daily_debts, 1),
                           debts |-> daily_debts], None, ud)
    ELSE Outcome(NoReply, None, ud)

\* The handlers main() registers, for a text message: the MessageHandler of
\* handle_text belongs to the state SELECTING_ACTION of the conversation, and
\* no other handler takes a text that is not a command.
TextDispatch(user_id, data, text) ==
    IF ConversationState(user_id, data) = "SELECTING_ACTION"
    THEN HandleText(text, user_data)
    ELSE Outcome(NoReply, None, user_data)

\* error_handler: the message the chat gets when a handler raised.
ErrorHandler(outcome) ==
    IF outcome.raised # None THEN [kind |-> "error"] ELSE outcome.reply

\* -------------------------------------------------------------- scheduler

NoRun == [year |-> 0, month |-> 0, day |-> 0, hour |-> 0]

\* a < b for two datetimes.
Before(a, b) ==
    \/ a.year < b.year
    \/ a.year = b.year /\ a.month < b.month
    \/ a.year = b.year /\ a.month = b.month /\ a.day < b.day
    \/ a.year = b.year /\ a.month = b.month /\ a.day = b.day /\ a.hour < b.hour

\* schedule.every().day.at("HH:00"): the first HH:00 after t.
FirstRunAfter(t) ==
    IF t.hour < NOTIFICATION_HOUR THEN [t EXCEPT !.hour = NOTIFICATION_HOUR]
    ELSE [PlusOneDay(t) EXCEPT !.hour = NOTIFICATION_HOUR]

\* The job's next_run once it ran at t: HH:00 of the day after.
NextRunAfter(t) == [PlusOneDay(t) EXCEPT !.hour = NOTIFICATION_HOUR]

\* DebtBot.write_to_sheet: the row appended to the sheet, when the request
\* succeeds.
WriteToSheet(sheet_name, values) ==
    IF ~service \/ ~storeUp THEN sheets
    ELSE [sheets EXCEPT ![sheet_name] = sheets[sheet_name] \o values]

\* What one run of the job does: whether it logs, how many times it calls
\* get_all_debts_summary, and the service and the sheets it leaves.
JobEffect(logs, summaries, svc, sh) ==
    [logs |-> logs, summaries |-> summaries, service |-> svc, sheets |-> sh]

\* The job with the summary computed where the comment announces the
\* mailing logic.
SendScheduledNotifications_CallsSummary ==
    IF ~ENABLE_NOTIFICATIONS THEN JobEffect(FALSE, 0, service, sheets)
    ELSE JobEffect(now.day = 10, 1, service, sheets)

\* The job with a row written to the employees sheet on each run.
SendScheduledNotifications_WritesRow ==
    IF ~ENABLE_NOTIFICATIONS THEN JobEffect(FALSE, 0, service, sheets)
    ELSE JobEffect(now.day = 10, 0, service,
                   WriteToSheet(SHEET_NAMES.employees, <<<<"2", "Petrov">>>>))

\* send_scheduled_notifications()
SendScheduledNotifications ==
    IF ~ENABLE_NOTIFICATIONS THEN JobEffect(FALSE, 0, service, sheets)
    ELSE JobEffect(now.day = 10, 0, service, sheets)

\* ------------------------------------------------------------ environment

handlerVars == <<pressed, reply, raised, user_data>>

timerVars ==
    <<ENABLE_NOTIFICATIONS, sched_pc, next_run, polled, job_runs, log_lines,
      timer_summaries>>

runVars == <<run_pc, run_employees, run_i, run_acc, run_month, run_overlap>>

threadVars == <<timerVars, runVars>>

vars ==
    <<service, storeUp, sheets, now, call, month_used, result, handlerVars,
      threadVars>>

NoCall == [op |-> "none", employee_name |-> None, month |-> None, date |-> None]

\* InsertAt(s, pos, row): s with row put before position pos.
InsertAt(s, pos, row) == SubSeq(s, 1, pos - 1) \o <<row>> \o SubSeq(s, pos, Len(s))

\* What the last call returned is read before the next change of the store.
Forgotten ==
    /\ call' = NoCall
    /\ month_used' = None
    /\ result' = <<>>
    /\ pressed' = NoPress
    /\ reply' = NoReply
    /\ raised' = None

\* An editor of the spreadsheet writes the header row of the empty debts sheet.
EditorWritesDebtsHeader ==
    /\ sheets.debts = <<>>
    /\ sheets' = [sheets EXCEPT !.debts = <<DebtsHeader>>]
    /\ Forgotten
    /\ UNCHANGED <<service, storeUp, now, user_data, threadVars>>

\* An administrator writes the header row of the empty employees sheet.
EditorWritesEmployeesHeader ==
    /\ sheets.employees = <<>>
    /\ sheets' = [sheets EXCEPT !.employees = <<EmployeesHeader>>]
    /\ Forgotten
    /\ UNCHANGED <<service, storeUp, now, user_data, threadVars>>

\* An editor adds a debt row below the header: at the end or between rows.
EditorAddsDebtRow ==
    /\ Len(sheets.debts) >= 1
    /\ Len(sheets.debts) < MaxRows + 1
    /\ \E row \in DebtRows, pos \in 2..(Len(sheets.debts) + 1) :
        sheets' = [sheets EXCEPT !.debts = InsertAt(sheets.debts, pos, row)]
    /\ Forgotten
    /\ UNCHANGED <<service, storeUp, now, user_data, threadVars>>

\* An administrator adds a row at the end of the employees sheet.
EditorAddsEmployeeRow ==
    /\ Len(sheets.employees) >= 1
    /\ Len(sheets.employees) < MaxEmployees + 1
    /\ \E row \in EmployeeRows :
        sheets' = [sheets EXCEPT !.employees = Append(sheets.employees, row)]
    /\ Forgotten
    /\ UNCHANGED <<service, storeUp, now, user_data, threadVars>>

\* A day passes on the clock datetime.now() reads.
DayPasses ==
    /\ PlusOneDay(now).year <= LastYear
    /\ now' = PlusOneDay(now)
    /\ Forgotten
    /\ UNCHANGED <<service, storeUp, sheets, user_data, threadVars>>

\* The Sheets service becomes unreachable, or reachable again.
StoreAvailabilityChanges ==
    /\ storeUp' = ~storeUp
    /\ Forgotten
    /\ UNCHANGED <<service, sheets, now, user_data, threadVars>>

\* ------------------------------------------------------------- operations

\* An administrator adds a row at the end of the admins sheet.
EditorAddsAdminRow ==
    /\ Len(sheets.admins) = 1
    /\ \E row \in AdminRows :
        sheets' = [sheets EXCEPT !.admins = Append(sheets.admins, row)]
    /\ Forgotten
    /\ UNCHANGED <<service, storeUp, now, user_data, threadVars>>

\* A user presses a button: the application runs button_handler and, when
\* it raises, error_handler.
PressButton ==
    /\ \E user_id \in UserIds, data \in ButtonData :
        LET outcome == ButtonHandler(user_id, data)
        IN  /\ pressed' = [user_id |-> user_id, data |-> data]
            /\ reply' = ErrorHandler(outcome)
            /\ raised' = outcome.raised
            /\ user_data' = outcome.user_data
    /\ UNCHANGED <<service, storeUp, sheets, now, call, month_used, result, threadVars>>

\* Texts a user sends after a prompt: an employee name or a date.
MessageTexts == NameTexts \cup DateTexts

\* The user who pressed a button last sends a text message.
SendText ==
    /\ pressed # NoPress
    /\ pressed.data \in ButtonData
    /\ \E text \in MessageTexts :
        LET outcome == TextDispatch(pressed.user_id, pressed.data, text)
        IN  /\ pressed' = [user_id |-> pressed.user_id, data |-> text]
            /\ reply' = ErrorHandler(outcome)
            /\ raised' = outcome.raised
            /\ user_data' = outcome.user_data
    /\ UNCHANGED <<service, storeUp, sheets, now, call, month_used, result, threadVars>>

\* An hour passes on the clock.  The scheduler loop sleeps 60 seconds
\* between two run_pending, so it polls within every hour it is in.
HourPasses ==
    /\ sched_pc = "loop" => polled
    /\ IF now.hour < 23
       THEN now' = [now EXCEPT !.hour = now.hour + 1]
       ELSE /\ now.day < 9 + ClockDays - 1
            /\ now' = [PlusOneDay(now) EXCEPT !.hour = 0]
    /\ polled' = FALSE
    /\ Forgotten
    /\ UNCHANGED <<service, storeUp, sheets, user_data, ENABLE_NOTIFICATIONS,
                   sched_pc, next_run, job_runs, log_lines, timer_summaries,
                   runVars>>

\* main(): the scheduler thread is started when notifications are enabled.
MainStartsScheduler ==
    /\ sched_pc = "not_started"
    /\ sched_pc' = IF ENABLE_NOTIFICATIONS THEN "started" ELSE "off"
    /\ UNCHANGED <<service, storeUp, sheets, now, call, month_used, result,
                   handlerVars, ENABLE_NOTIFICATIONS, next_run, polled,
                   job_runs, log_lines, timer_summaries, runVars>>

\* scheduler_thread(): the job is registered with schedule.
SchedulerRegistersJob ==
    /\ sched_pc = "started"
    /\ sched_pc' = "loop"
    /\ next_run' = FirstRunAfter(now)
    /\ UNCHANGED <<service, storeUp, sheets, now, call, month_used, result,
                   handlerVars, ENABLE_NOTIFICATIONS, polled, job_runs,
                   log_lines, timer_summaries, runVars>>

\* One turn of the loop of scheduler_thread(): schedule.run_pending() runs
\* the job when it is due.
SchedulerRunsPending ==
    /\ sched_pc = "loop"
    /\ polled' = TRUE
    /\ IF ~Before(now, next_run)
       THEN LET effect == SendScheduledNotifications
            IN  /\ job_runs' = Append(job_runs, now)
                /\ log_lines' = IF effect.logs THEN Append(log_lines, now)
                                ELSE log_lines
                /\ timer_summaries' = timer_summaries + effect.summaries
                /\ service' = effect.service
                /\ sheets' = effect.sheets
                /\ next_run' = NextRunAfter(now)
                /\ run_overlap' = (run_overlap \/ run_pc = "loop")
       ELSE UNCHANGED <<job_runs, log_lines, timer_summaries, service, sheets,
                        next_run, run_overlap>>
    /\ UNCHANGED <<storeUp, now, call, month_used, result, handlerVars,
                   ENABLE_NOTIFICATIONS, sched_pc, run_pc, run_employees,
                   run_i, run_acc, run_month>>

\* An interactive query starts get_all_debts_summary(): get_all_employees().
SummaryReadsEmployees ==
    /\ run_pc = "idle"
    /\ run_pc' = "loop"
    /\ run_employees' = GetAllEmployees
    /\ run_i' = 1
    /\ run_acc' = [total |-> 0, summary |-> <<>>]
    /\ run_month' = CurrentPeriod(now)
    /\ run_overlap' = FALSE
    /\ call' = NoCall
    /\ month_used' = None
    /\ result' = <<>>
    /\ UNCHANGED <<service, storeUp, sheets, now, handlerVars, timerVars>>

\* One turn of its loop: calculate_monthly_debt(employee, month).
SummaryAddsEmployee ==
    /\ run_pc = "loop"
    /\ run_i <= Len(run_employees)
    /\ run_acc' = SummaryStep(run_acc, run_employees[run_i],
                              CalculateMonthlyDebt(run_employees[run_i], None).total)
    /\ run_i' = run_i + 1
    /\ UNCHANGED <<service, storeUp, sheets, now, call, month_used, result,
                   handlerVars, timerVars, run_pc, run_employees, run_month,
                   run_overlap>>

\* Its return.
SummaryReturns ==
    /\ run_pc = "loop"
    /\ run_i > Len(run_employees)
    /\ run_pc' = "idle"
    /\ call' = [op |-> "get_all_debts_summary", employee_name |-> None,
                month |-> None, date |-> None]
    /\ month_used' = CurrentPeriod(now)
    /\ result' = run_acc
    /\ UNCHANGED <<service, storeUp, sheets, now, handlerVars, timerVars,
                   run_employees, run_i, run_acc, run_month, run_overlap>>

\* A caller runs bot.calculate_monthly_debt(employee_name, month).
CallCalculateMonthlyDebt ==
    /\ \E employee_name \in NameArgs, month \in MonthArgs :
        /\ call' = [op |-> "calculate_monthly_debt",
                    employee_name |-> employee_name, month |-> month,
                    date |-> None]
        /\ month_used' = MonthOf(month)
        /\ result' = CalculateMonthlyDebt(employee_name, month)
    /\ UNCHANGED <<service, storeUp, sheets, now, handlerVars, threadVars>>

\* A caller runs bot.get_daily_debts(date, employee_name).
CallGetDailyDebts ==
    /\ \E date \in DateArgs, employee_name \in DailyNameArgs :
        /\ call' = [op |-> "get_daily_debts",
                    employee_name |-> employee_name, month |-> None,
                    date |-> date]
        /\ result' = GetDailyDebts(date, employee_name)
    /\ UNCHANGED <<service, storeUp, sheets, now, month_used, handlerVars, threadVars>>

\* A caller runs bot.get_all_debts_summary(month).
CallGetAllDebtsSummary ==
    /\ \E month \in MonthArgs :
        /\ call' = [op |-> "get_all_debts_summary",
                    employee_name |-> None, month |-> month, date |-> None]
        /\ month_used' = MonthOf(month)
        /\ result' = GetAllDebtsSummary(month)
    /\ UNCHANGED <<service, storeUp, sheets, now, handlerVars, threadVars>>

\* -------------------------------------------------------- specifications

\* The state after `bot = DebtBot()`: the client was built or not (the
\* except branch of setup_google_sheets), nothing was called yet.
InitBot ==
    /\ service \in BOOLEAN
    /\ storeUp = TRUE
    /\ call = NoCall
    /\ month_used = None
    /\ result = <<>>
    /\ pressed = NoPress
    /\ reply = NoReply
    /\ raised = None
    /\ user_data = [action |-> None, employee_name |-> None]
    /\ sched_pc = "not_started"
    /\ next_run = NoRun
    /\ polled = FALSE
    /\ job_runs = <<>>
    /\ log_lines = <<>>
    /\ timer_summaries = 0
    /\ run_pc = "idle"
    /\ run_employees = <<>>
    /\ run_i = 1
    /\ run_acc = [total |-> 0, summary |-> <<>>]
    /\ run_month = None
    /\ run_overlap = FALSE

Init ==
    /\ InitBot
    /\ ENABLE_NOTIFICATIONS = FALSE
    /\ sheets = [employees |-> <<>>, debts |-> <<>>, admins |-> <<>>]
    /\ now = [year |-> 2024, month |-> 12, day |-> 9, hour |-> 0]

\* The aggregator's two row scans over a debts sheet that editors extend.
Next ==
    \/ EditorWritesDebtsHeader
    \/ EditorAddsDebtRow
    \/ StoreAvailabilityChanges
    \/ CallCalculateMonthlyDebt
    \/ CallGetDailyDebts

Spec == Init /\ [][Next]_vars

\* The summary over the employees sheet, which administrators extend.
NextSummary ==
    \/ EditorWritesDebtsHeader
    \/ EditorWritesEmployeesHeader
    \/ EditorAddsDebtRow
    \/ EditorAddsEmployeeRow
    \/ StoreAvailabilityChanges
    \/ CallGetAllDebtsSummary

SpecSummary == Init /\ [][NextSummary]_vars

\* The button handlers, on 9 or 10 December 2024, over a debts sheet with
\* three debts of Ivanov in the period November 2024 and one of Petrov in
\* December 2024, and employees and admins sheets that administrators extend.
InitHandlers ==
    /\ InitBot
    /\ ENABLE_NOTIFICATIONS = FALSE
    /\ sheets = [employees |-> <<EmployeesHeader>>,
                 admins |-> <<AdminsHeader>>,
                 debts |-> <<DebtsHeader,
                             <<"09.12.2024", "Ivanov", "tea", "10", "November 2024">>,
                             <<"09.12.2024", "Ivanov", "tea", "5", "November 2024">>,
                             <<"10.12.2024", "Petrov", "tea", "5", "December 2024">>,
                             <<"09.12.2024", "Ivanov", "tea", "20", "November 2024">>>>]
    /\ now \in {[year |-> 2024, month |-> 12, day |-> d, hour |-> 0] : d \in {9, 10}}

NextHandlers ==
    \/ StoreAvailabilityChanges
    \/ EditorAddsEmployeeRow
    \/ EditorAddsAdminRow
    \/ PressButton
    \/ SendText

SpecHandlers == InitHandlers /\ [][NextHandlers]_vars

\* The scheduler thread beside an interactive summary, from 9 December 2024,
\* 0:00, over an employees sheet with two employees and a debts sheet with a
\* debt of each.
InitThreads ==
    /\ InitBot
    /\ ENABLE_NOTIFICATIONS \in BOOLEAN
    /\ sheets = [employees |-> <<EmployeesHeader, <<"1", "Ivanov">>,
                                 <<"2", "Petrov">>>>,
                 admins |-> <<AdminsHeader, <<"9">>>>,
                 debts |-> <<DebtsHeader,
                             <<"09.12.2024", "Ivanov", "tea", "10", "November 2024">>,
                             <<"09.12.2024", "Petrov", "tea", "5", "November 2024">>,
                             <<"10.12.2024", "Petrov", "tea", "20", "December 2024">>>>]
    /\ now = [year |-> 2024, month |-> 12, day |-> 9, hour |-> 0]

NextThreads ==
    \/ HourPasses
    \/ MainStartsScheduler
    \/ SchedulerRegistersJob
    \/ SchedulerRunsPending
    \/ SummaryReadsEmployees
    \/ SummaryAddsEmployee
    \/ SummaryReturns

SpecThreads == InitThreads /\ [][NextThreads]_vars

\* The period rule over the days of 2023..LastYear, on a sheet with one debt
\* of the period November 2024.
InitPeriod ==
    /\ InitBot
    /\ ENABLE_NOTIFICATIONS = FALSE
    /\ service = TRUE
    /\ sheets = [employees |-> <<>>, admins |-> <<>>,
                 debts |-> <<DebtsHeader,
                             <<"09.12.2024", "Ivanov", "tea", "10",
                               "November 2024">>>>]
    /\ now = [year |-> 2023, month |-> 1, day |-> 1, hour |-> 0]

NextPeriod ==
    \/ DayPasses
    \/ CallCalculateMonthlyDebt

SpecPeriod == InitPeriod /\ [][NextPeriod]_vars

\* ------------------------------------------------- claims: the row scans

\* The rows a call reads from the debts sheet: none while the adapter has
\* no client or its request fails.
C_DebtsRead == IF service /\ storeUp THEN sheets.debts ELSE <<>>

\* The data rows (all but the first, the header) of a sheet.
C_DataRows(sheet) == IF Len(sheet) < 2 THEN <<>> ELSE SubSeq(sheet, 2, Len(sheet))

\* A row with an employee_name and a period_label column equal to the pair.
C_RowIsOf(row, name, label) == Len(row) >= 5 /\ row[2] = name /\ row[5] = label

\* The amount texts that are decimal numbers.
C_Numeric(text) == text \in {"10", "5", "-5", "0", "20"}

C_AmountOf(text) ==
    CASE text = "10" -> 10 [] text = "5" -> 5 [] text = "-5" -> 0 - 5
      [] text = "0" -> 0 [] text = "20" -> 20

RECURSIVE C_SumAmounts(_)
C_SumAmounts(entries) ==
    IF entries = <<>> THEN 0
    ELSE C_SumAmounts(SubSeq(entries, 1, Len(entries) - 1))
         + entries[Len(entries)].amount

C_MonthlyRows(sheet, name, label) ==
    SelectSeq(C_DataRows(sheet),
              LAMBDA row : C_RowIsOf(row, name, label) /\ C_Numeric(row[4]))

C_MonthlyDetails(sheet, name, label) ==
    LET rows == C_MonthlyRows(sheet, name, label)
    IN  [k \in 1..Len(rows) |->
            [date |-> rows[k][1], items |-> rows[k][3],
             amount |-> C_AmountOf(rows[k][4])]]

C_IsMonthly == call.op = "calculate_monthly_debt"
C_IsDaily == call.op = "get_daily_debts"

\* C2, first half: the total is the sum of the amounts of exactly the data
\* rows whose employee_name and period_label columns equal the requested
\* pair (rows whose amount does not parse left out, as the scan skips them),
\* and the details are those rows in the order of the sheet.
C2_SumOfMatchingRows ==
    C_IsMonthly =>
        /\ result.details =
              C_MonthlyDetails(C_DebtsRead, call.employee_name, month_used)
        /\ result.total = C_SumAmounts(result.details)

\* C2, second half: a step of the editors that appends or inserts a row not
\* of (name, label) leaves calculate_monthly_debt(name, label) unchanged.
C2_NonMatchingRowChangesNothing ==
    (Len(sheets.debts) >= 1 /\ Len(sheets'.debts) = Len(sheets.debts) + 1) =>
        \A pos \in 2..Len(sheets'.debts) :
            sheets'.debts = InsertAt(sheets.debts, pos, sheets'.debts[pos]) =>
                \A name \in NameArgs, label \in LabelTexts :
                    ~C_RowIsOf(sheets'.debts[pos], name, label) =>
                        CalculateMonthlyDebt(name, label)'
                            = CalculateMonthlyDebt(name, label)

\* C2: calculate_monthly_debt returns the sum and the list, in sheet order,
\* of exactly the rows of (employee_name, period_label), and adding a row
\* that is not of that pair changes neither.
C2_TotalForPeriod ==
    [](C2_SumOfMatchingRows) /\ [][C2_NonMatchingRowChangesNothing]_vars

\* C2's case: a call that summed two rows of the pair while the sheet also
\* held a row of another employee or period.
C2_Witness ==
    /\ C_IsMonthly
    /\ Len(result.details) >= 1
    /\ result.total > 0
    /\ \E k \in 2..Len(C_DebtsRead) :
          /\ Len(C_DebtsRead[k]) >= 5
          /\ ~C_RowIsOf(C_DebtsRead[k], call.employee_name, month_used)

\* A row whose amount cell is there and is not a number.
C_Malformed(row) == Len(row) >= 4 /\ ~C_Numeric(row[4])

C_WithoutMalformed(sheet) ==
    IF sheet = <<>> THEN <<>>
    ELSE <<sheet[1]>> \o SelectSeq(C_DataRows(sheet), LAMBDA row : ~C_Malformed(row))

\* C4: a row whose amount is not numeric is left out of the total and of the
\* list, and the rows after it are still scanned: calculate_monthly_debt and
\* get_daily_debts return what they return on the sheet without such rows.
C4_MalformedRowsSkipped ==
    /\ C_IsMonthly =>
          result = MonthlyDebtOf(C_WithoutMalformed(C_DebtsRead),
                                 call.employee_name, month_used)
    /\ C_IsDaily =>
          result = DailyDebtsOf(C_WithoutMalformed(C_DebtsRead),
                                call.date, call.employee_name)

\* C4's case: a malformed row of the requested pair, a valid row of the pair
\* after it, and a result that lists the valid row only.
C4_Witness ==
    /\ C_IsMonthly
    /\ Len(C_DebtsRead) = 3
    /\ C_RowIsOf(C_DebtsRead[2], call.employee_name, month_used)
    /\ C_Malformed(C_DebtsRead[2])
    /\ C_RowIsOf(C_DebtsRead[3], call.employee_name, month_used)
    /\ ~C_Malformed(C_DebtsRead[3])
    /\ Len(result.details) = 1
    /\ result.total = result.details[1].amount

\* No data row read is of the requested (employee_name, period_label).
C_NoRowOf(sheet, name, label) ==
    \A k \in 2..Len(sheet) : ~C_RowIsOf(sheet[k], name, label)

\* C5: when no row read matches the requested pair (an empty or header-only
\* sheet, an unknown name, an adapter that returns nothing),
\* calculate_monthly_debt returns (0, []).
C5_NoMatchGivesZero ==
    (C_IsMonthly /\ C_NoRowOf(C_DebtsRead, call.employee_name, month_used))
        => result = [total |-> 0, details |-> <<>>]

\* C5's case: the sheet holds a row of the pair with a numeric amount, the
\* request fails, and the call returns (0, []).
C5_Witness ==
    /\ C_IsMonthly
    /\ service /\ ~storeUp
    /\ C_MonthlyRows(sheets.debts, call.employee_name, month_used) # <<>>
    /\ result = [total |-> 0, details |-> <<>>]

RECURSIVE C_IsSubsequence(_, _)
C_IsSubsequence(a, b) ==
    IF a = <<>> THEN TRUE
    ELSE IF b = <<>> THEN FALSE
    ELSE IF a[1] = b[1] THEN C_IsSubsequence(Tail(a), Tail(b))
    ELSE C_IsSubsequence(a, Tail(b))

\* What get_daily_debts(date) returns on the rows the call read.
C_Unfiltered == DailyDebtsOf(C_DebtsRead, call.date, None)

\* C6 as stated: with an employee name given, the result is a strict subset
\* of the unfiltered result of the date and holds that employee's rows only.
C6_StrictSubset ==
    (C_IsDaily /\ call.employee_name # None) =>
        /\ C_IsSubsequence(result, C_Unfiltered)
        /\ result # C_Unfiltered
        /\ \A k \in 1..Len(result) : result[k].employee = call.employee_name

\* C6 amended: with a non-empty employee name given, the result is the
\* unfiltered result of the date restricted to that employee's entries, in
\* the same order (equal to it when every entry is that employee's); an
\* empty name filters nothing.
C6_SubsequenceOfUnfiltered ==
    (C_IsDaily /\ call.employee_name # None) =>
        /\ C_IsSubsequence(result, C_Unfiltered)
        /\ call.employee_name # "" =>
              result = SelectSeq(C_Unfiltered,
                                 LAMBDA e : e.employee = call.employee_name)
        /\ call.employee_name = "" => result = C_Unfiltered

\* C6's case: a date with entries of two employees, queried for one of them.
C6_Witness ==
    /\ C_IsDaily
    /\ call.employee_name \in NameTexts
    /\ Len(result) >= 1
    /\ Len(C_Unfiltered) > Len(result)

\* C8 as stated: every total and every amount returned is >= 0.
C8_AmountsNonNegative ==
    /\ C_IsMonthly =>
          /\ result.total >= 0
          /\ \A k \in 1..Len(result.details) : result.details[k].amount >= 0
    /\ C_IsDaily => \A k \in 1..Len(result) : result[k].amount >= 0

\* ------------------------------------------------- claims: the period rule

C_MonthWord(m) ==
    CASE m = 1 -> "January" [] m = 2 -> "February" [] m = 3 -> "March"
      [] m = 4 -> "April" [] m = 5 -> "May" [] m = 6 -> "June"
      [] m = 7 -> "July" [] m = 8 -> "August" [] m = 9 -> "September"
      [] m = 10 -> "October" [] m = 11 -> "November" [] m = 12 -> "December"

C_Label(y, m) == C_MonthWord(m) \o " " \o ToString(y)

\* The label of the month before month m of year y.
C_PreviousLabel(y, m) == IF m = 1 THEN C_Label(y - 1, 12) ELSE C_Label(y, m - 1)

\* C1: with no period passed, calculate_monthly_debt works with the month and
\* year of today when today's day is >= 10 and with the calendar month before
\* today's when it is < 10, across a year boundary too.
C1_PeriodOfToday ==
    (C_IsMonthly /\ call.month = None) =>
        month_used = IF now.day >= 10 THEN C_Label(now.year, now.month)
                     ELSE C_PreviousLabel(now.year, now.month)

\* C1's case: on 5 January 2024 the call works with December 2023.
C1_Witness ==
    /\ C_IsMonthly /\ call.month = None
    /\ now.year = 2024 /\ now.month = 1 /\ now.day = 5
    /\ month_used = "December 2023"

\* --------------------------------------------------- claims: the summary

C_EmployeesRead == IF service /\ storeUp THEN sheets.employees ELSE <<>>

\* The names of the employees sheet, in its order.
C_NamesListed ==
    LET rows == SelectSeq(C_DataRows(C_EmployeesRead), LAMBDA row : Len(row) > 1)
    IN  [k \in 1..Len(rows) |-> rows[k][2]]

\* calculate_monthly_debt's total of an employee for the summary's period.
C_TotalOf(name) == C_SumAmounts(C_MonthlyDetails(C_DebtsRead, name, month_used))

RECURSIVE C_SumTotals(_)
C_SumTotals(entries) ==
    IF entries = <<>> THEN 0
    ELSE entries[1].total + C_SumTotals(Tail(entries))

C_IsSummary == call.op = "get_all_debts_summary"

\* C3 as stated: the summary lists, in the order of the employees sheet,
\* exactly the employees whose total is not 0, each with its total, and the
\* grand total is the sum of the totals listed.
C3_ListsNonZeroTotals ==
    C_IsSummary =>
        LET listed == SelectSeq(C_NamesListed, LAMBDA n : C_TotalOf(n) # 0)
        IN  /\ result.summary =
                  [k \in 1..Len(listed) |->
                      [employee |-> listed[k], total |-> C_TotalOf(listed[k])]]
            /\ result.total = C_SumTotals(result.summary)

\* -------------------------------------------------- claims: the handlers

C_Registered(user_id) ==
    \E k \in 2..Len(C_EmployeesRead) :
        /\ Len(C_EmployeesRead[k]) > 1
        /\ C_EmployeesRead[k][1] = user_id

C_IsAdmin(user_id) ==
    \E k \in 2..Len(sheets.admins) :
        Len(sheets.admins[k]) > 0 /\ sheets.admins[k][1] = user_id

\* The name of the first row of the employees sheet with this id.
C_NameOf(user_id) ==
    LET k == CHOOSE k \in 2..Len(C_EmployeesRead) :
                /\ Len(C_EmployeesRead[k]) > 0
                /\ C_EmployeesRead[k][1] = user_id
                /\ \A j \in 2..(k - 1) :
                      ~(Len(C_EmployeesRead[j]) > 0
                        /\ C_EmployeesRead[j][1] = user_id)
    IN  C_EmployeesRead[k][2]

\* The details calculate_monthly_debt returns for the user's current period.
C_DetailsOf(user_id) ==
    C_MonthlyDetails(C_DebtsRead, C_NameOf(user_id),
                     IF now.day >= 10 THEN C_Label(now.year, now.month)
                     ELSE C_PreviousLabel(now.year, now.month))

\* C7 as stated: in the itemized detail view of an employee who has debts in
\* the period, the k-th running total shown is the sum of the first k detail
\* amounts, and the last one is the total of calculate_monthly_debt.
C7_RunningTotalShown ==
    (/\ pressed.data = "my_debt_details"
     /\ ~C_IsAdmin(pressed.user_id)
     /\ C_Registered(pressed.user_id)
     /\ C_DetailsOf(pressed.user_id) # <<>>)
    => /\ reply.kind = "my_debt_details"
       /\ Len(reply.lines) = Len(C_DetailsOf(pressed.user_id))
       /\ \A k \in 1..Len(reply.lines) :
             reply.lines[k].running_total
                = C_SumAmounts(SubSeq(C_DetailsOf(pressed.user_id), 1, k))
       /\ reply.lines[Len(reply.lines)].running_total = reply.total

\* --------------------------------------------------- claims: the threads

\* The interactive summary returned, and the period it started in is the
\* period it returned in.
C_SummaryReturned == C_IsSummary /\ run_pc = "idle" /\ run_month = month_used

\* The interactive summary returned what get_all_debts_summary() returns
\* when nothing runs beside it on the same sheets.
C_ResultAsAlone == C_SummaryReturned => result = GetAllDebtsSummary(None)

C_SameDay(a, b) == a.year = b.year /\ a.month = b.month /\ a.day = b.day

\* The job ran at most once on any day, each time at the configured hour.
C_AtMostOncePerDay ==
    /\ \A i \in 1..Len(job_runs) : job_runs[i].hour = NOTIFICATION_HOUR
    /\ \A i \in 1..Len(job_runs) : \A j \in (i + 1)..Len(job_runs) :
          ~C_SameDay(job_runs[i], job_runs[j])

\* C10 as stated: with notifications enabled every daily firing of the timer
\* invokes get_all_debts_summary, once, at the configured hour.
C10_SummaryOncePerDay ==
    ENABLE_NOTIFICATIONS =>
        /\ C_AtMostOncePerDay
        /\ timer_summaries = Len(job_runs)

\* C10 amended: with notifications enabled the timer runs
\* send_scheduled_notifications once on every day at the configured hour,
\* from the first such hour after the thread registered the job, and never
\* twice on a day; the job never invokes get_all_debts_summary and logs on the
\* 10th of the month only.  With notifications disabled the job never runs.
C10_JobOncePerDay ==
    /\ ~ENABLE_NOTIFICATIONS => job_runs = <<>> /\ sched_pc \in {"not_started", "off"}
    /\ C_AtMostOncePerDay
    /\ \A i \in 1..(Len(job_runs) - 1) :
          C_SameDay(job_runs[i + 1], PlusOneDay(job_runs[i]))
    /\ (sched_pc = "loop" /\ polled) => Before(now, next_run)
    /\ (sched_pc = "loop" /\ job_runs = <<>>) =>
          \/ Before(now, next_run)
          \/ now = next_run
    /\ (sched_pc = "loop" /\ job_runs # <<>>) =>
          C_SameDay(now, job_runs[Len(job_runs)])
          \/ (C_SameDay(now, PlusOneDay(job_runs[Len(job_runs)]))
              /\ now.hour <= NOTIFICATION_HOUR)
    /\ timer_summaries = 0
    /\ log_lines = SelectSeq(job_runs, LAMBDA t : t.day = 10)

\* C10's case: the job ran on three days in a row, the 10th among them.
C10_Witness ==
    /\ ENABLE_NOTIFICATIONS
    /\ Len(job_runs) = 3
    /\ Len(log_lines) = 1

\* ------------------------------------------- claims: the labels of replies

\* The replies that report a debt total for the current period.
C_ReportsPeriodTotal ==
    reply.kind \in {"my_debt_total", "my_debt_details", "all_debts",
                    "employee_debt"}

\* C11 as stated: the period label printed in a reply that reports a debt
\* total for the current period is the label calculate_monthly_debt used to
\* select the rows, on every date.
C11_LabelIsPeriodUsed ==
    C_ReportsPeriodTotal => reply.month = MonthOf(None)

\* ------------------------------------ claims: the employee menu buttons

C_EmployeeButtons == {"my_debt_total", "my_debt_daily", "my_debt_details"}

\* The last update is a press of an employee menu button by a user whose
\* role get_user_role does not resolve to admin.
C_EmployeePress ==
    /\ pressed.data \in C_EmployeeButtons
    /\ GetUserRole(pressed.user_id) # "admin"

\* The reply to the press reports what calculate_monthly_debt returns for
\* the name registered for the user's own id, and nothing else.
C_OwnAggregates ==
    LET own == C_DetailsOf(pressed.user_id)
    IN  \/ /\ pressed.data = "my_debt_total"
           /\ reply.kind = "my_debt_total"
           /\ reply.total = C_SumAmounts(own)
           /\ C_IsSubsequence(reply.details, own)
        \/ /\ pressed.data = "my_debt_daily"
           /\ reply.kind = "ask_date"
           /\ user_data.employee_name = C_NameOf(pressed.user_id)
        \/ /\ pressed.data = "my_debt_details"
           /\ own = <<>>
           /\ reply.kind = "no_debts"
        \/ /\ pressed.data = "my_debt_details"
           /\ own # <<>>
           /\ reply.kind = "my_debt_details"
           /\ reply.total = C_SumAmounts(own)
           /\ [k \in 1..Len(reply.lines) |->
                 [date |-> reply.lines[k].date, items |-> reply.lines[k].items,
                  amount |-> reply.lines[k].amount]] = own

\* C12 as stated: a press of an employee menu button by a user who is not
\* an admin raises no exception and is answered with the aggregates of the
\* user's own name or, for an id that is not in the employees sheet, with
\* the message that the name was not found.
C12_EmployeeButtonsAnswered ==
    C_EmployeePress =>
        /\ raised = None
        /\ IF C_Registered(pressed.user_id) THEN C_OwnAggregates
           ELSE reply.kind = "name_not_found"

====
